---------------------------- MODULE Spec2Model ----------------------------
(***************************************************************************)
(* State machine of the two observability monitors of this repository:     *)
(*   StateComparisonMonitor (state_comparison_monitor.py)                  *)
(*   StateMetricsMonitor    (state_metrics_monitor.py)                     *)
(* One monitor instance is constructed in Init (variant, max_points) and   *)
(* then driven by its host through set_inputs, advance_to, get_outputs,    *)
(* visualize and reset.  A Python float is a rational <<numerator,         *)
(* denominator>> in lowest terms whose significand fits MantissaBits bits; *)
(* every float operation rounds its exact result to the nearest such       *)
(* value, ties to even, as IEEE 754 does with 53 bits.  The largest finite  *)
(* float is (2^MantissaBits - 1) * 2^MaxExponent: float() of a larger      *)
(* integer raises OverflowError and a larger sum is infinity, <<1, 0>> or  *)
(* <<-1, 0>>; <<0, 0>> is NaN.  Underflow is not modelled, nor comparison  *)
(* of non-finite floats.  Timestamps are integers.                         *)
(***************************************************************************)
EXTENDS Integers, Sequences, FiniteSets, TLC

VARIABLES
    variant,        \* which class was instantiated: "comparison" or "metrics"
    max_points,     \* self.max_points (both classes)
    cmp_latest,     \* StateComparisonMonitor._latest
    cmp_series,     \* StateComparisonMonitor._series
    cmp_last_t,     \* StateComparisonMonitor._last_t
    cmp_outputs,    \* StateComparisonMonitor._outputs
    met_history,    \* StateMetricsMonitor._history
    met_latest_t,   \* StateMetricsMonitor._latest_t
    met_outputs,    \* StateMetricsMonitor._outputs
    lastOp,         \* the last call the host made, with its arguments
    ret,            \* what the last call returned
    arrivals,       \* per known stream: the observations ingested since construction/reset
    advanced        \* whether advance_to was called since construction/reset

vars == <<variant, max_points, cmp_latest, cmp_series, cmp_last_t,
          cmp_outputs, met_history, met_latest_t, met_outputs, lastOp, ret,
          arrivals, advanced>>

cmpVars == <<cmp_latest, cmp_series, cmp_last_t, cmp_outputs>>
metVars == <<met_history, met_latest_t, met_outputs>>
cfgVars == <<variant, max_points>>

---------------------------------------------------------------------------
(* Bounds of the exploration *)

MaxArrivals == 2        \* observations ingested between two resets, all streams together
MaxBatch == 2           \* keys of one set_inputs call
MaxPointsArg == 2       \* largest max_points a monitor is constructed with
MantissaBits == 5       \* bits of a float's significand (53 in Python)
LongWindow == 3         \* max_points of the monitor of SpecRounding
MaxExponent == 4        \* largest exponent of a finite float (971 in Python)
MaxItems == 2           \* entries of a dict, list or tuple handed to the projection

AdvanceTimes == {1}  \* arguments of advance_to

---------------------------------------------------------------------------
(* Python None, the empty dict, and names *)

\* a return value: Python None, or a value
None == [is_none |-> TRUE, val |-> << >>]
Some(v) == [is_none |-> FALSE, val |-> v]

\* a call that ended with an exception instead of a return value
Raise(exc) == [is_none |-> FALSE, val |-> exc, raised |-> TRUE]
Raised(r) == "raised" \in DOMAIN r
EmptyDict == << >>

\* inputs(): {"state_a", "state_b", "state_c", "state_d"}
CmpInputs == {"state_a", "state_b", "state_c", "state_d"}
MetInputs == {"state_a", "state_b", "state_c", "state_d"}

\* outputs()
CmpOutputs == {"comparison_state"}
MetOutputs == {"metrics"}

\* sorted() on stream names: the lexical order of the four slot names
LexOrder == <<"state_a", "state_b", "state_c", "state_d">>

Sorted(S) == SelectSeq(LexOrder, LAMBDA n : n \in S)

\* a key the monitors do not know
UnknownKeys == {"state_z"}

\* d[k] = v on a dict
DictSet(d, k, v) == [x \in (DOMAIN d) \cup {k} |-> IF x = k THEN v ELSE d[x]]

\* d.get(k, default)
DictGet(d, k, default) == IF k \in DOMAIN d THEN d[k] ELSE default

---------------------------------------------------------------------------
(* Python float arithmetic *)

Abs(i) == IF i < 0 THEN -i ELSE i

RECURSIVE Gcd(_, _)
Gcd(a, b) == IF b = 0 THEN a ELSE Gcd(b, a % b)

Rat(n, d) ==
    LET g == Gcd(Abs(n), Abs(d))
        s == IF d < 0 THEN -1 ELSE 1
    IN  <<(s * n) \div g, (s * d) \div g>>

\* n / d for n >= 0, d > 0, to the nearest integer, ties to even
NearestEven(n, d) ==
    LET q == n \div d
        r == n % d
    IN  IF 2 * r > d \/ (2 * r = d /\ q % 2 = 1) THEN q + 1 ELSE q

\* n / d > 0 to the nearest value m * 2^e with a significand m of MantissaBits bits
RECURSIVE RoundPositive(_, _)
RoundPositive(n, d) ==
    IF n >= (2 ^ MantissaBits) * d
    THEN LET r == RoundPositive(n, 2 * d) IN Rat(2 * r[1], r[2])
    ELSE IF n < (2 ^ (MantissaBits - 1)) * d
    THEN LET r == RoundPositive(2 * n, d) IN Rat(r[1], 2 * r[2])
    ELSE <<NearestEven(n, d), 1>>

\* the float nearest to the rational n / d; an integer of at most MantissaBits
\* bits is a float
Round(n, d) ==
    LET q == Rat(n, d)
    IN  IF q[1] = 0 THEN <<0, 1>>
        ELSE IF q[2] = 1 /\ Abs(q[1]) < 2 ^ MantissaBits THEN q
        ELSE IF q[1] < 0
        THEN LET r == RoundPositive(-q[1], q[2]) IN <<-r[1], r[2]>>
        ELSE RoundPositive(q[1], q[2])

\* the largest finite float, and the floats that are not finite
MaxFinite == (2 ^ MantissaBits - 1) * 2 ^ MaxExponent
Infinity == <<1, 0>>
NaN == <<0, 0>>
IsFinite(x) == x[2] # 0

\* a rounded result, infinity when it exceeds the largest finite float
Bounded(r) ==
    IF r[1] > MaxFinite * r[2] THEN <<1, 0>>
    ELSE IF -r[1] > MaxFinite * r[2] THEN <<-1, 0>>
    ELSE r

\* float(i) of an integer raises OverflowError when i rounds beyond the range;
\* an integer within the range rounds to a float within it
IntOverflows(i) ==
    /\ Abs(i) > MaxFinite
    /\ LET r == Round(i, 1) IN Abs(r[1]) > MaxFinite * r[2]

\* float(i) of an integer that float() converts
ToFloat(i) == Round(i, 1)

\* a + b, a - b on floats; a / k for a float a and an integer k >= 1
FAdd(a, b) ==
    IF a[2] = 0 THEN (IF b[2] = 0 /\ b[1] # a[1] THEN NaN ELSE a)
    ELSE IF b[2] = 0 THEN b
    ELSE Bounded(Round(a[1] * b[2] + b[1] * a[2], a[2] * b[2]))
FSub(a, b) == FAdd(a, <<-b[1], b[2]>>)
FDivInt(a, k) == IF a[2] = 0 THEN a ELSE Round(a[1], a[2] * k)

\* a < b, a <= b on floats
FLt(a, b) == a[1] * b[2] < b[1] * a[2]
FLe(a, b) == a[1] * b[2] <= b[1] * a[2]

\* a high-water mark that follows the last value seen
PyMaxTakeSecond(a, b) == b

\* max(a, b): the first argument unless the second is greater
PyMax(a, b) == IF b > a THEN b ELSE a

\* sum(xs): 0 + xs[0] + xs[1] + ..., left to right
RECURSIVE PySum(_)
PySum(xs) ==
    IF xs = << >> THEN ToFloat(0)
    ELSE FAdd(PySum(SubSeq(xs, 1, Len(xs) - 1)), xs[Len(xs)])

\* min(xs) and max(xs) of a non-empty list: the first smallest, the first largest
RECURSIVE PyMinList(_)
PyMinList(xs) ==
    IF Len(xs) = 1 THEN xs[1]
    ELSE LET m == PyMinList(SubSeq(xs, 1, Len(xs) - 1))
         IN  IF FLt(xs[Len(xs)], m) THEN xs[Len(xs)] ELSE m

RECURSIVE PyMaxList(_)
PyMaxList(xs) ==
    IF Len(xs) = 1 THEN xs[1]
    ELSE LET m == PyMaxList(SubSeq(xs, 1, Len(xs) - 1))
         IN  IF FLt(m, xs[Len(xs)]) THEN xs[Len(xs)] ELSE m

\* a slice that never trims
SliceLastKeepAll(xs, n) == xs

\* a slice that keeps the oldest n entries, dropping the newest
SliceLastKeepOldest(xs, n) == SubSeq(xs, 1, IF n < Len(xs) THEN n ELSE Len(xs))

\* xs[-n:]
SliceLast(xs, n) ==
    LET len == Len(xs)
        start == IF n > 0 THEN (IF len - n > 0 THEN len - n ELSE 0)
                 ELSE (IF -n < len THEN -n ELSE len)
    IN  SubSeq(xs, start + 1, len)

---------------------------------------------------------------------------
(* Signal values: what BioSignal.value may hold *)

Num(i) == [kind |-> "num", v |-> i, items |-> << >>]
Bool(b) == [kind |-> "bool", v |-> IF b THEN 1 ELSE 0, items |-> << >>]
Other == [kind |-> "other", v |-> 0, items |-> << >>]
Dict(vals) == [kind |-> "dict", v |-> 0, items |-> vals]
List(vals) == [kind |-> "list", v |-> 0, items |-> vals]
Tuple(vals) == [kind |-> "tuple", v |-> 0, items |-> vals]

\* isinstance(v, (int, float)); bool is a subclass of int
IsNumber(value) == value.kind \in {"num", "bool"}

\* [float(v) for v in items if isinstance(v, (int, float))]
RECURSIVE NumericItems(_)
NumericItems(items) ==
    IF items = << >> THEN << >>
    ELSE IF IsNumber(items[1])
         THEN <<ToFloat(items[1].v)>> \o NumericItems(Tail(items))
         ELSE NumericItems(Tail(items))

\* float(sum(nums) / len(nums))
Mean(nums) == FDivInt(PySum(nums), Len(nums))

\* float(v) raises OverflowError: v is an int beyond the float range
FloatRaises(value) == IsNumber(value) /\ IntOverflows(value.v)

\* one of the float(v) calls of the projection raises: on the value itself, or
\* on a numeric entry of a dict or a list
ProjectionRaises(value) ==
    \/ FloatRaises(value)
    \/ /\ value.kind \in {"dict", "list"}
       /\ \E i \in 1..Len(value.items) : FloatRaises(value.items[i])

\* StateComparisonMonitor._scalar_projection
ScalarProjection(value) ==
    IF IsNumber(value) THEN ToFloat(value.v)
    ELSE IF value.kind = "dict" /\ NumericItems(value.items) # << >>
         THEN Mean(NumericItems(value.items))
    ELSE IF value.kind = "list" /\ NumericItems(value.items) # << >>
         THEN Mean(NumericItems(value.items))
    ELSE ToFloat(0)

\* StateMetricsMonitor._extract_scalar
ExtractScalar(value) ==
    IF IsNumber(value) THEN ToFloat(value.v)
    ELSE IF value.kind = "dict" /\ NumericItems(value.items) # << >>
         THEN Mean(NumericItems(value.items))
    ELSE IF value.kind = "list" /\ NumericItems(value.items) # << >>
         THEN Mean(NumericItems(value.items))
    ELSE ToFloat(0)

---------------------------------------------------------------------------
(* The inputs the host feeds *)


\* BioSignal(source, name, value, time, metadata) as the monitors read it
Sig(t, value) == [source |-> "a", value |-> value, time |-> t]

Signals == {Sig(2, Num(3)), Sig(-1, Num(3)), Sig(2, Dict(<<Num(1), Num(2)>>))}

AllKeys == CmpInputs \cup UnknownKeys

\* the dicts of at most MaxBatch signals a set_inputs call may receive
Batches ==
    UNION {[D -> Signals] : D \in {K \in SUBSET AllKeys : Cardinality(K) <= MaxBatch}}

TotalArrivals == Len(arrivals["state_a"]) + Len(arrivals["state_b"])
                 + Len(arrivals["state_c"]) + Len(arrivals["state_d"])

Op(name, t, keys) == [op |-> name, t |-> t, keys |-> keys]

\* a call of a projection method on a value
Call(name, value) == [op |-> name, t |-> 0, keys |-> {}, value |-> value]

---------------------------------------------------------------------------
(* StateComparisonMonitor *)

\* a loop body that records as latest the update with the newest timestamp
CmpIngestKeepingNewest(st, name, sig) ==
    LET t == sig.time
        scalar == ScalarProjection(sig.value)
        appended == Append(DictGet(st.series, name, << >>), <<t, scalar>>)
        kept == IF Len(appended) > max_points
                THEN SliceLast(appended, max_points)
                ELSE appended
        older == name \in DOMAIN st.latest /\ st.latest[name].t > t
    IN  [latest |-> IF older THEN st.latest
                    ELSE DictSet(st.latest, name,
                                 [t |-> t, scalar |-> scalar, source |-> sig.source]),
         series |-> DictSet(st.series, name, kept),
         last_t |-> PyMax(st.last_t, t),
         raised |-> st.raised]

\* the body of the loop of set_inputs for one stream name
CmpIngest(st, name, sig) ==
    LET t == sig.time
        scalar == ScalarProjection(sig.value)
        appended == Append(DictGet(st.series, name, << >>), <<t, scalar>>)
        kept == IF Len(appended) > max_points
                THEN SliceLast(appended, max_points)
                ELSE appended
    IN  [latest |-> DictSet(st.latest, name,
                            [t |-> t, scalar |-> scalar, source |-> sig.source]),
         series |-> DictSet(st.series, name, kept),
         last_t |-> PyMax(st.last_t, t),
         raised |-> st.raised]

\* a loop that records a zero observation for every stream absent from the call
RECURSIVE CmpSetInputsLoopZeroFill(_, _, _)
CmpSetInputsLoopZeroFill(names, signals, st) ==
    IF names = << >> THEN st
    ELSE LET name == Head(names)
             next == IF name \in DOMAIN signals
                     THEN CmpIngest(st, name, signals[name])
                     ELSE CmpIngest(st, name, Sig(0, Other))
         IN  CmpSetInputsLoopZeroFill(Tail(names), signals, next)

\* for name in sorted(self.inputs()): ...; an exception of the projection
\* leaves the loop, the streams ingested before it staying ingested
RECURSIVE CmpSetInputsLoop(_, _, _)
CmpSetInputsLoop(names, signals, st) ==
    IF names = << >> THEN st
    ELSE LET name == Head(names)
         IN  IF name \notin DOMAIN signals
             THEN CmpSetInputsLoop(Tail(names), signals, st)
             ELSE IF ProjectionRaises(signals[name].value)
             THEN [st EXCEPT !.raised = TRUE]
             ELSE CmpSetInputsLoop(Tail(names), signals,
                                   CmpIngest(st, name, signals[name]))

\* the names of a set_inputs call that the loop ingests: the names it finds
\* in signals, up to the first whose projection raises
RECURSIVE Ingested(_, _)
Ingested(names, signals) ==
    IF names = << >> THEN {}
    ELSE IF Head(names) \notin DOMAIN signals THEN Ingested(Tail(names), signals)
    ELSE IF ProjectionRaises(signals[Head(names)].value) THEN {}
    ELSE {Head(names)} \cup Ingested(Tail(names), signals)

\* the observations a set_inputs call ingests, appended to the arrival log
Logged(signals, known, project(_)) ==
    LET ingested == Ingested(Sorted(known), signals)
    IN  [n \in DOMAIN arrivals |->
            IF n \in ingested
            THEN Append(arrivals[n], <<signals[n].time, project(signals[n].value)>>)
            ELSE arrivals[n]]

\* set_inputs(signals) for a dict drawn from batches, within the arrival budget
CmpSetInputsFrom(batches, budget) ==
    /\ variant = "comparison"
    /\ \E signals \in batches :
        /\ TotalArrivals + Cardinality(DOMAIN signals \cap CmpInputs) <= budget
        /\ \E st \in {CmpSetInputsLoop(Sorted(CmpInputs), signals,
                        [latest |-> cmp_latest, series |-> cmp_series,
                         last_t |-> cmp_last_t, raised |-> FALSE])} :
               /\ cmp_latest' = st.latest
               /\ cmp_series' = st.series
               /\ cmp_last_t' = st.last_t
               /\ ret' = IF st.raised THEN Raise("OverflowError") ELSE None
        /\ arrivals' = Logged(signals, CmpInputs, ScalarProjection)
        /\ lastOp' = Op("set_inputs", 0, DOMAIN signals)
    /\ UNCHANGED <<cfgVars, cmp_outputs, metVars, advanced>>

CmpSetInputs == CmpSetInputsFrom(Batches, MaxArrivals)

\* getattr(self, "_world_name", self.__class__.__name__): no code of the
\* repository sets _world_name, so the class name is what the call yields
CmpSourceName == "StateComparisonMonitor"

\* nested loops whose inner loop starts at i instead of i + 1
LoopPairsFromSelf(active) ==
    LET n == Len(active)
        RECURSIVE Row(_, _)
        Row(i, j) == IF j > n THEN << >> ELSE <<<<active[i], active[j]>>>> \o Row(i, j + 1)
        RECURSIVE Rows(_)
        Rows(i) == IF i > n THEN << >> ELSE Row(i, i) \o Rows(i + 1)
    IN  Rows(1)

\* the pairs (left, right) in the order the nested loops of advance_to visit them
LoopPairs(active) ==
    LET n == Len(active)
        RECURSIVE Row(_, _)
        Row(i, j) == IF j > n THEN << >> ELSE <<<<active[i], active[j]>>>> \o Row(i, j + 1)
        RECURSIVE Rows(_)
        Rows(i) == IF i > n THEN << >> ELSE Row(i, i + 1) \o Rows(i + 1)
    IN  Rows(1)

\* f"{left}_minus_{right}"
DeltaKey(left, right) == left \o "_minus_" \o right

\* deltas[key] = float(latest_values[left] - latest_values[right]), pair after pair
RECURSIVE BuildDeltas(_, _, _)
BuildDeltas(pairs, latest_values, deltas) ==
    IF pairs = << >> THEN deltas
    ELSE LET left == pairs[1][1]
             right == pairs[1][2]
         IN  BuildDeltas(Tail(pairs), latest_values,
                 DictSet(deltas, DeltaKey(left, right),
                         FSub(latest_values[left], latest_values[right])))

\* an effective time that ignores the high-water mark
CmpNowIgnoringLastT(t) == t

\* now = float(max(t, self._last_t))
CmpNow(t) == PyMax(t, cmp_last_t)

\* the BioSignal advance_to stores under "comparison_state"
CmpSnapshot(t) ==
    LET now == CmpNow(t)
        active == SelectSeq(Sorted(DOMAIN cmp_latest), LAMBDA k : k \in CmpInputs)
        activeSet == {active[i] : i \in 1..Len(active)}
        latest_values == [k \in activeSet |-> cmp_latest[k].scalar]
        deltas == BuildDeltas(LoopPairs(active), latest_values, EmptyDict)
    IN  [source |-> CmpSourceName,
         name |-> "comparison_state",
         value |-> [t |-> now,
                    latest_values |-> latest_values,
                    pairwise_deltas |-> deltas,
                    n_streams |-> Len(active)],
         time |-> now,
         metadata |-> [description |-> "State comparison summary", kind |-> "state"]]

\* an advance that keeps a snapshot already stored
CmpAdvanceToKeepingFirst ==
    /\ variant = "comparison"
    /\ \E t \in AdvanceTimes :
        /\ cmp_outputs' = IF DOMAIN cmp_outputs = {}
                          THEN [k \in {"comparison_state"} |-> CmpSnapshot(t)]
                          ELSE cmp_outputs
        /\ lastOp' = Op("advance_to", t, {})
    /\ ret' = None
    /\ advanced' = TRUE
    /\ UNCHANGED <<cfgVars, cmp_latest, cmp_series, cmp_last_t, metVars, arrivals>>

\* an advance that consumes the latest-update records it reported
CmpAdvanceToConsuming ==
    /\ variant = "comparison"
    /\ \E t \in AdvanceTimes :
        /\ cmp_outputs' = [k \in {"comparison_state"} |-> CmpSnapshot(t)]
        /\ lastOp' = Op("advance_to", t, {})
    /\ cmp_latest' = EmptyDict
    /\ ret' = None
    /\ advanced' = TRUE
    /\ UNCHANGED <<cfgVars, cmp_series, cmp_last_t, metVars, arrivals>>

CmpAdvanceTo ==
    /\ variant = "comparison"
    /\ \E t \in AdvanceTimes :
        /\ cmp_outputs' = [k \in {"comparison_state"} |-> CmpSnapshot(t)]
        /\ lastOp' = Op("advance_to", t, {})
    /\ ret' = None
    /\ advanced' = TRUE
    /\ UNCHANGED <<cfgVars, cmp_latest, cmp_series, cmp_last_t, metVars, arrivals>>

\* dict(self._outputs)
CmpGetOutputsResult == [k \in DOMAIN cmp_outputs |-> cmp_outputs[k]]

CmpGetOutputs ==
    /\ variant = "comparison"
    /\ ret' = Some(CmpGetOutputsResult)
    /\ lastOp' = Op("get_outputs", 0, {})
    /\ UNCHANGED <<cfgVars, cmpVars, metVars, arrivals, advanced>>

NoArrivals == [n \in CmpInputs |-> << >>]

\* a reset that forgets the high-water time
CmpResetKeepingLastT ==
    /\ variant = "comparison"
    /\ cmp_latest' = EmptyDict
    /\ cmp_series' = EmptyDict
    /\ cmp_outputs' = EmptyDict
    /\ lastOp' = Op("reset", 0, {})
    /\ ret' = None
    /\ arrivals' = NoArrivals
    /\ advanced' = FALSE
    /\ UNCHANGED <<cfgVars, cmp_last_t, metVars>>

CmpReset ==
    /\ variant = "comparison"
    /\ cmp_latest' = EmptyDict
    /\ cmp_series' = EmptyDict
    /\ cmp_last_t' = 0
    /\ cmp_outputs' = EmptyDict
    /\ lastOp' = Op("reset", 0, {})
    /\ ret' = None
    /\ arrivals' = NoArrivals
    /\ advanced' = FALSE
    /\ UNCHANGED <<cfgVars, metVars>>

\* inputs() and outputs() as the host calls them
CmpQueryInputs ==
    /\ variant = "comparison"
    /\ ret' = Some(CmpInputs)
    /\ lastOp' = Op("inputs", 0, {})
    /\ UNCHANGED <<cfgVars, cmpVars, metVars, arrivals, advanced>>

\* an outputs() that lists what is stored
CmpQueryOutputsStored ==
    /\ variant = "comparison"
    /\ ret' = Some(DOMAIN cmp_outputs)
    /\ lastOp' = Op("outputs", 0, {})
    /\ UNCHANGED <<cfgVars, cmpVars, metVars, arrivals, advanced>>

CmpQueryOutputs ==
    /\ variant = "comparison"
    /\ ret' = Some(CmpOutputs)
    /\ lastOp' = Op("outputs", 0, {})
    /\ UNCHANGED <<cfgVars, cmpVars, metVars, arrivals, advanced>>

\* digits after the point in f"{x:.6f}"
Precision == 6

\* the decimal digits of n, at least width of them
RECURSIVE Digits(_, _)
Digits(n, width) ==
    IF width <= 1 \/ n >= 10 ^ (width - 1) THEN ToString(n)
    ELSE "0" \o Digits(n, width - 1)

\* f"{float(x):.6f}": round to the nearest millionth, ties to even
Fmt6(x) ==
    LET scale == 10 ^ Precision
        a == Abs(x[1]) * scale
        q == a \div x[2]
        r == a % x[2]
        micro == IF 2 * r > x[2] \/ (2 * r = x[2] /\ q % 2 = 1) THEN q + 1 ELSE q
    IN  (IF x[1] < 0 THEN "-" ELSE "") \o Digits(micro \div scale, 1)
        \o "." \o Digits(micro % scale, Precision)

\* [f(x) for x in xs]
RECURSIVE MapSeq(_, _)
MapSeq(f(_), xs) == IF xs = << >> THEN << >> ELSE <<f(xs[1])>> \o MapSeq(f, Tail(xs))

\* render blocks whose table is computed from the latest-update records
CmpVisualizeBlocksFromLatest ==
    LET timeseries ==
            [render |-> "timeseries",
             data |-> [title |-> "State Stream Comparison",
                       series |-> MapSeq(LAMBDA n : [name |-> n, points |-> cmp_series[n]],
                                         Sorted(DOMAIN cmp_series))],
             description |-> "Scalar projections for each incoming state stream."]
        rows == MapSeq(LAMBDA k : <<k, Fmt6(cmp_latest[k].scalar)>>,
                       Sorted(DOMAIN cmp_latest))
        table ==
            [render |-> "table",
             data |-> [columns |-> <<"Stream", "Latest Scalar">>, rows |-> rows],
             description |-> "Latest scalar value per state input stream."]
    IN  <<timeseries, table>>

\* the two render blocks visualize builds
CmpVisualizeBlocks ==
    LET timeseries ==
            [render |-> "timeseries",
             data |-> [title |-> "State Stream Comparison",
                       series |-> MapSeq(LAMBDA n : [name |-> n, points |-> cmp_series[n]],
                                         Sorted(DOMAIN cmp_series))],
             description |-> "Scalar projections for each incoming state stream."]
        latest_values ==
            IF "comparison_state" \in DOMAIN cmp_outputs
            THEN cmp_outputs["comparison_state"].value.latest_values
            ELSE EmptyDict
        rows == MapSeq(LAMBDA k : <<k, Fmt6(latest_values[k])>>,
                       Sorted(DOMAIN latest_values))
        table ==
            [render |-> "table",
             data |-> [columns |-> <<"Stream", "Latest Scalar">>, rows |-> rows],
             description |-> "Latest scalar value per state input stream."]
    IN  <<timeseries, table>>

\* a visualize that is absent until the first advance_to
CmpVisualizeAbsentWithoutSnapshot ==
    IF DOMAIN cmp_outputs = {} THEN None ELSE Some(CmpVisualizeBlocks)

\* StateComparisonMonitor.visualize
CmpVisualizeResult ==
    IF DOMAIN cmp_series = {} THEN None ELSE Some(CmpVisualizeBlocks)

\* a visualize that hands over the retained series and starts them afresh
CmpVisualizeDraining ==
    /\ variant = "comparison"
    /\ ret' = CmpVisualizeResult
    /\ lastOp' = Op("visualize", 0, {})
    /\ cmp_series' = [n \in DOMAIN cmp_series |-> << >>]
    /\ UNCHANGED <<cfgVars, cmp_latest, cmp_last_t, cmp_outputs, metVars, arrivals, advanced>>

CmpVisualize ==
    /\ variant = "comparison"
    /\ ret' = CmpVisualizeResult
    /\ lastOp' = Op("visualize", 0, {})
    /\ UNCHANGED <<cfgVars, cmpVars, metVars, arrivals, advanced>>

---------------------------------------------------------------------------
(* StateMetricsMonitor *)

\* the body of the loop of set_inputs for one stream name
MetIngest(st, name, sig) ==
    LET scalar == ExtractScalar(sig.value)
        appended == Append(DictGet(st.history, name, << >>), scalar)
        kept == IF Len(appended) > max_points
                THEN SliceLast(appended, max_points)
                ELSE appended
    IN  [history |-> DictSet(st.history, name, kept),
         latest_t |-> PyMax(st.latest_t, sig.time),
         raised |-> st.raised]

\* for name in sorted(self.inputs()): ...; an exception of the projection
\* leaves the loop, the streams ingested before it staying ingested
RECURSIVE MetSetInputsLoop(_, _, _)
MetSetInputsLoop(names, signals, st) ==
    IF names = << >> THEN st
    ELSE LET name == Head(names)
         IN  IF name \notin DOMAIN signals
             THEN MetSetInputsLoop(Tail(names), signals, st)
             ELSE IF ProjectionRaises(signals[name].value)
             THEN [st EXCEPT !.raised = TRUE]
             ELSE MetSetInputsLoop(Tail(names), signals,
                                   MetIngest(st, name, signals[name]))

\* set_inputs(signals) for a dict drawn from batches, within the arrival budget
MetSetInputsFrom(batches, budget) ==
    /\ variant = "metrics"
    /\ \E signals \in batches :
        /\ TotalArrivals + Cardinality(DOMAIN signals \cap MetInputs) <= budget
        /\ \E st \in {MetSetInputsLoop(Sorted(MetInputs), signals,
                        [history |-> met_history, latest_t |-> met_latest_t,
                         raised |-> FALSE])} :
               /\ met_history' = st.history
               /\ met_latest_t' = st.latest_t
               /\ ret' = IF st.raised THEN Raise("OverflowError") ELSE None
        /\ arrivals' = Logged(signals, MetInputs, ExtractScalar)
        /\ lastOp' = Op("set_inputs", 0, DOMAIN signals)
    /\ UNCHANGED <<cfgVars, met_outputs, cmpVars, advanced>>

MetSetInputs == MetSetInputsFrom(Batches, MaxArrivals)

\* a summary that reports the oldest retained value as the minimum
SummaryMinIsFirst(values) ==
    IF values = << >>
    THEN [count |-> ToFloat(0), mean |-> ToFloat(0), min |-> ToFloat(0), max |-> ToFloat(0)]
    ELSE [count |-> ToFloat(Len(values)),
          mean |-> FDivInt(PySum(values), Len(values)),
          min |-> values[1],
          max |-> PyMaxList(values)]

\* StateMetricsMonitor._summary
Summary(values) ==
    IF values = << >>
    THEN [count |-> ToFloat(0), mean |-> ToFloat(0), min |-> ToFloat(0), max |-> ToFloat(0)]
    ELSE [count |-> ToFloat(Len(values)),
          mean |-> FDivInt(PySum(values), Len(values)),
          min |-> PyMinList(values),
          max |-> PyMaxList(values)]

\* getattr(self, "_world_name", self.__class__.__name__)
MetSourceName == "StateMetricsMonitor"

\* now = float(max(t, self._latest_t))
MetNow(t) == PyMax(t, met_latest_t)

\* a snapshot with an entry for every declared input, data or not
MetSnapshotAllInputs(t) ==
    LET now == PyMax(t, met_latest_t)
        per_stream == [k \in MetInputs |-> Summary(DictGet(met_history, k, << >>))]
    IN  [source |-> "StateMetricsMonitor",
         name |-> "metrics",
         value |-> [t |-> now,
                    stream_metrics |-> per_stream,
                    stream_count |-> Cardinality(DOMAIN per_stream)],
         time |-> now,
         metadata |-> [description |-> "State stream metrics summary", kind |-> "state"]]

\* the BioSignal advance_to stores under "metrics"
MetSnapshot(t) ==
    LET now == MetNow(t)
        per_stream == [k \in DOMAIN met_history |-> Summary(met_history[k])]
    IN  [source |-> MetSourceName,
         name |-> "metrics",
         value |-> [t |-> now,
                    stream_metrics |-> per_stream,
                    stream_count |-> Cardinality(DOMAIN per_stream)],
         time |-> now,
         metadata |-> [description |-> "State stream metrics summary", kind |-> "state"]]

\* an advance that moves the high-water time to the effective time
MetAdvanceToRaisingHighWater ==
    /\ variant = "metrics"
    /\ \E t \in AdvanceTimes :
        /\ met_outputs' = [k \in {"metrics"} |-> MetSnapshot(t)]
        /\ met_latest_t' = MetNow(t)
        /\ lastOp' = Op("advance_to", t, {})
    /\ ret' = None
    /\ advanced' = TRUE
    /\ UNCHANGED <<cfgVars, met_history, cmpVars, arrivals>>

MetAdvanceTo ==
    /\ variant = "metrics"
    /\ \E t \in AdvanceTimes :
        /\ met_outputs' = [k \in {"metrics"} |-> MetSnapshot(t)]
        /\ lastOp' = Op("advance_to", t, {})
    /\ ret' = None
    /\ advanced' = TRUE
    /\ UNCHANGED <<cfgVars, met_history, met_latest_t, cmpVars, arrivals>>

\* dict(self._outputs)
MetGetOutputsResult == [k \in DOMAIN met_outputs |-> met_outputs[k]]

MetGetOutputs ==
    /\ variant = "metrics"
    /\ ret' = Some(MetGetOutputsResult)
    /\ lastOp' = Op("get_outputs", 0, {})
    /\ UNCHANGED <<cfgVars, cmpVars, metVars, arrivals, advanced>>

MetReset ==
    /\ variant = "metrics"
    /\ met_history' = EmptyDict
    /\ met_latest_t' = 0
    /\ met_outputs' = EmptyDict
    /\ lastOp' = Op("reset", 0, {})
    /\ ret' = None
    /\ arrivals' = NoArrivals
    /\ advanced' = FALSE
    /\ UNCHANGED <<cfgVars, cmpVars>>

\* inputs() and outputs() as the host calls them
MetQueryInputs ==
    /\ variant = "metrics"
    /\ ret' = Some(MetInputs)
    /\ lastOp' = Op("inputs", 0, {})
    /\ UNCHANGED <<cfgVars, cmpVars, metVars, arrivals, advanced>>

MetQueryOutputs ==
    /\ variant = "metrics"
    /\ ret' = Some(MetOutputs)
    /\ lastOp' = Op("outputs", 0, {})
    /\ UNCHANGED <<cfgVars, cmpVars, metVars, arrivals, advanced>>

\* [[float(i), float(v)] for i, v in enumerate(vals)]
Enumerated(vals) == [i \in 1..Len(vals) |-> <<i - 1, vals[i]>>]

\* int(x) of a float: truncation toward zero
PyInt(x) == IF x[1] < 0 THEN -((-x[1]) \div x[2]) ELSE x[1] \div x[2]

\* the two render blocks visualize builds
MetVisualizeBlocks ==
    LET series == MapSeq(LAMBDA n : [name |-> n, points |-> Enumerated(met_history[n])],
                         Sorted(DOMAIN met_history))
        metrics ==
            IF "metrics" \in DOMAIN met_outputs
            THEN met_outputs["metrics"].value.stream_metrics
            ELSE EmptyDict
        rows == MapSeq(LAMBDA n : <<n, ToString(PyInt(metrics[n].count)),
                                    Fmt6(metrics[n].mean), Fmt6(metrics[n].min),
                                    Fmt6(metrics[n].max)>>,
                       Sorted(DOMAIN metrics))
    IN  <<[render |-> "timeseries",
                data |-> [title |-> "State Stream Metrics (Scalar History)",
                          series |-> series],
                description |-> "Scalar history per stream for quick trend checks."],
               [render |-> "table",
                data |-> [columns |-> <<"Stream", "Count", "Mean", "Min", "Max">>,
                          rows |-> rows],
                description |-> "Descriptive metrics for each stream."]>>

\* StateMetricsMonitor.visualize
MetVisualizeResult ==
    IF DOMAIN met_history = {} THEN None ELSE Some(MetVisualizeBlocks)

MetVisualize ==
    /\ variant = "metrics"
    /\ ret' = MetVisualizeResult
    /\ lastOp' = Op("visualize", 0, {})
    /\ UNCHANGED <<cfgVars, cmpVars, metVars, arrivals, advanced>>

---------------------------------------------------------------------------
(* Construction and the host's calls *)

Variants == {"comparison", "metrics"}
MaxPointsArgs == 1..MaxPointsArg

\* __init__ of either class
Init ==
    /\ variant \in Variants
    /\ max_points \in MaxPointsArgs
    /\ cmp_latest = EmptyDict
    /\ cmp_series = EmptyDict
    /\ cmp_last_t = 0
    /\ cmp_outputs = EmptyDict
    /\ met_history = EmptyDict
    /\ met_latest_t = 0
    /\ met_outputs = EmptyDict
    /\ lastOp = Op("__init__", 0, {})
    /\ ret = None
    /\ arrivals = NoArrivals
    /\ advanced = FALSE

Next ==
    \/ CmpSetInputs
    \/ CmpAdvanceTo
    \/ CmpGetOutputs
    \/ CmpVisualize
    \/ CmpReset
    \/ MetSetInputs
    \/ MetAdvanceTo
    \/ MetGetOutputs
    \/ MetVisualize
    \/ MetReset
    \/ CmpQueryInputs
    \/ CmpQueryOutputs
    \/ MetQueryInputs
    \/ MetQueryOutputs

Spec == Init /\ [][Next]_vars

---------------------------------------------------------------------------
(* A metrics monitor with a window of LongWindow entries, fed integers whose
   sums do not fit the significand *)

RoundingSignals == {Sig(1, Num(11)), Sig(1, Num(13))}

RoundingBatches == UNION {[D -> RoundingSignals] : D \in {{}, {"state_a"}}}

MetSetInputsRounding == MetSetInputsFrom(RoundingBatches, LongWindow + 1)

InitRounding ==
    /\ variant = "metrics"
    /\ max_points = LongWindow
    /\ cmp_latest = EmptyDict
    /\ cmp_series = EmptyDict
    /\ cmp_last_t = 0
    /\ cmp_outputs = EmptyDict
    /\ met_history = EmptyDict
    /\ met_latest_t = 0
    /\ met_outputs = EmptyDict
    /\ lastOp = Op("__init__", 0, {})
    /\ ret = None
    /\ arrivals = NoArrivals
    /\ advanced = FALSE

NextRounding ==
    \/ MetSetInputsRounding
    \/ MetAdvanceTo
    \/ MetGetOutputs
    \/ MetVisualize
    \/ MetReset

SpecRounding == InitRounding /\ [][NextRounding]_vars

---------------------------------------------------------------------------
(* A monitor constructed with any integer max_points, non-positive ones
   included: __init__ stores int(max_points) unchecked *)

CapacityArgs == (-MaxPointsArg)..MaxPointsArg

InitAnyCapacity ==
    /\ variant \in Variants
    /\ max_points \in CapacityArgs
    /\ cmp_latest = EmptyDict
    /\ cmp_series = EmptyDict
    /\ cmp_last_t = 0
    /\ cmp_outputs = EmptyDict
    /\ met_history = EmptyDict
    /\ met_latest_t = 0
    /\ met_outputs = EmptyDict
    /\ lastOp = Op("__init__", 0, {})
    /\ ret = None
    /\ arrivals = NoArrivals
    /\ advanced = FALSE

SpecAnyCapacity == InitAnyCapacity /\ [][Next]_vars

---------------------------------------------------------------------------
(* The projection methods on values of every shape: numbers, among them an int
   beyond the float range, bools, dicts, lists and tuples of at most MaxItems
   entries, and a value of another type; and set_inputs on signals that carry
   such values *)

ProjectionItems == {Num(3), Num(MaxFinite), Num(2 * MaxFinite), Bool(TRUE), Other}

ItemLists == UNION {[1..k -> ProjectionItems] : k \in 0..MaxItems}

ProjectionInputs ==
    ProjectionItems \cup {Dict(x) : x \in ItemLists} \cup {List(x) : x \in ItemLists}
        \cup {Tuple(x) : x \in ItemLists}

\* self._scalar_projection(value)
CmpProject ==
    /\ variant = "comparison"
    /\ \E value \in ProjectionInputs :
        /\ lastOp' = Call("_scalar_projection", value)
        /\ ret' = IF ProjectionRaises(value) THEN Raise("OverflowError")
                  ELSE Some(ScalarProjection(value))
    /\ UNCHANGED <<cfgVars, cmpVars, metVars, arrivals, advanced>>

\* self._extract_scalar(value)
MetProject ==
    /\ variant = "metrics"
    /\ \E value \in ProjectionInputs :
        /\ lastOp' = Call("_extract_scalar", value)
        /\ ret' = IF ProjectionRaises(value) THEN Raise("OverflowError")
                  ELSE Some(ExtractScalar(value))
    /\ UNCHANGED <<cfgVars, cmpVars, metVars, arrivals, advanced>>

\* one signal of any value on state_a, or two signals of which none, one or
\* both carry an int beyond the float range
MalformedBatches ==
    {[n \in {"state_a"} |-> Sig(1, value)] : value \in ProjectionInputs}
        \cup [{"state_a", "state_b"} -> {Sig(1, Num(3)), Sig(2, Num(2 * MaxFinite))}]

CmpSetInputsMalformed == CmpSetInputsFrom(MalformedBatches, MaxArrivals)

MetSetInputsMalformed == MetSetInputsFrom(MalformedBatches, MaxArrivals)

InitProjection == Init /\ max_points = MaxPointsArg

NextProjection ==
    \/ CmpProject
    \/ MetProject
    \/ CmpSetInputsMalformed
    \/ MetSetInputsMalformed
    \/ CmpReset
    \/ MetReset

SpecProjection == InitProjection /\ [][NextProjection]_vars

---------------------------------------------------------------------------
(* Views of the constructed monitor, whichever class it is *)

IsCmp == variant = "comparison"

\* the retained history of a stream, empty when the stream has no entry
History(n) ==
    IF IsCmp THEN DictGet(cmp_series, n, << >>) ELSE DictGet(met_history, n, << >>)

HistoryKeys == IF IsCmp THEN DOMAIN cmp_series ELSE DOMAIN met_history

HighWater == IF IsCmp THEN cmp_last_t ELSE met_latest_t

Outputs == IF IsCmp THEN cmp_outputs ELSE met_outputs

OutputName == IF IsCmp THEN "comparison_state" ELSE "metrics"

VisualizeResult == IF IsCmp THEN CmpVisualizeResult ELSE MetVisualizeResult

GetOutputsResult == IF IsCmp THEN CmpGetOutputsResult ELSE MetGetOutputsResult

Known == {"state_a", "state_b", "state_c", "state_d"}

\* the streams that received an update since construction or the last reset
Active == {n \in Known : arrivals[n] # << >>}

\* the positions of the arrival log
SeqIndexPairs == UNION {{<<n, i>> : i \in 1..Len(arrivals[n])} : n \in Known}

\* every timestamp ingested since construction or the last reset
Timestamps == {arrivals[p[1]][p[2]][1] : p \in SeqIndexPairs}

SetMax(S) == CHOOSE m \in S : \A x \in S : x <= m

\* what a stream's history holds of an arrival: the (t, scalar) pair in the
\* comparison monitor, the scalar alone in the metrics monitor
Kept(obs) == IF IsCmp THEN obs ELSE obs[2]

\* the last m entries of the arrival log of a stream, as its history holds them
LastArrivals(n, m) ==
    [i \in 1..m |-> Kept(arrivals[n][Len(arrivals[n]) - m + i])]

Min2(a, b) == IF a < b THEN a ELSE b

---------------------------------------------------------------------------
(* C1: with a positive max_points, every stream's retained history has at
   most max_points entries in every reachable state of either monitor. *)
C1_HistoryBounded ==
    /\ \A n \in DOMAIN cmp_series : Len(cmp_series[n]) <= max_points
    /\ \A n \in DOMAIN met_history : Len(met_history[n]) <= max_points

\* a stream that received more updates than max_points and retains max_points
C1_Witness ==
    /\ variant = "metrics"
    /\ lastOp.op = "set_inputs"
    /\ \E n \in Known : /\ Len(arrivals[n]) > max_points
                        /\ Len(met_history[n]) = max_points

(* C2: after k updates to a stream since construction/reset its history is
   the last min(k, max_points) projected observations in arrival order; a
   stream with no update has no history entry. *)
C2_HistoryIsRecentWindow ==
    \A n \in Known :
        IF arrivals[n] = << >>
        THEN n \notin HistoryKeys
        ELSE /\ n \in HistoryKeys
             /\ History(n) = LastArrivals(n, Min2(Len(arrivals[n]), max_points))

\* an overflow in the comparison monitor whose evicted entry carries the newer
\* timestamp: the retained entry is the last arrival, older in time
C2_Witness ==
    /\ IsCmp
    /\ \E n \in Known :
        /\ Len(arrivals[n]) = 2
        /\ max_points = 1
        /\ arrivals[n][1][1] > arrivals[n][2][1]
        /\ cmp_series[n] = <<arrivals[n][2]>>

(* C3: the High-Water Time never decreases over a set_inputs call, and after
   every call it is the maximum of 0 and the timestamps ingested since
   construction or the last reset. *)
C3_HighWaterIsMax ==
    [][/\ lastOp'.op = "set_inputs" => HighWater' >= HighWater
       /\ HighWater' = SetMax(Timestamps' \cup {0})]_vars

\* a set_inputs call whose timestamp is older than the High-Water Time
C3_Witness ==
    /\ lastOp.op = "set_inputs"
    /\ \E n \in lastOp.keys \cap Known :
        arrivals[n][Len(arrivals[n])][1] < HighWater
    /\ HighWater = 2

\* the position of a stream name in lexical order
LexIndex(n) == CHOOSE i \in 1..Len(LexOrder) : LexOrder[i] = n

\* the payload of the stored snapshot
Payload == Outputs[OutputName].value

(* C4: comparison monitor: the snapshot counts the active streams in
   n_streams and in the keys of latest_values, and pairwise_deltas holds
   exactly one entry per pair left < right of active streams, keyed
   "<left>_minus_<right>" and equal to latest_values[left] -
   latest_values[right]; no reverse key, no self key.  Right after advance_to
   the streams of the snapshot are the active streams. *)
C4_PairwiseDeltas ==
    (IsCmp /\ advanced) =>
        LET A == DOMAIN Payload.latest_values
            lv == Payload.latest_values
            deltas == Payload.pairwise_deltas
            size == Cardinality(A)
        IN  /\ lastOp.op = "advance_to" => A = Active
            /\ Payload.n_streams = size
            /\ 2 * Cardinality(DOMAIN deltas) = size * (size - 1)
            /\ \A l \in A : \A r \in A :
                LET key == l \o "_minus_" \o r
                IN  IF LexIndex(l) < LexIndex(r)
                    THEN /\ key \in DOMAIN deltas
                         /\ deltas[key] = FSub(lv[l], lv[r])
                    ELSE key \notin DOMAIN deltas

\* two active streams with different latest scalars, right after advance_to
C4_Witness ==
    /\ IsCmp
    /\ lastOp.op = "advance_to"
    /\ Active = {"state_a", "state_b"}
    /\ Payload.n_streams = 2
    /\ DOMAIN Payload.pairwise_deltas = {"state_a_minus_state_b"}
    /\ Payload.pairwise_deltas["state_a_minus_state_b"] = <<3, 2>>

\* w[1] + ... + w[k] added in this order, each addition rounded
RECURSIVE SumUpTo(_, _)
SumUpTo(w, k) == IF k = 0 THEN <<0, 1>> ELSE FAdd(SumUpTo(w, k - 1), w[k])

\* m is the count/mean/min/max record of the non-empty window w
IsSummaryOf(m, w) ==
    LET elems == {w[i] : i \in 1..Len(w)}
    IN  /\ m.count = <<Len(w), 1>>
        /\ m.min \in elems /\ \A x \in elems : FLe(m.min, x)
        /\ m.max \in elems /\ \A x \in elems : FLe(x, m.max)
        /\ m.mean = FDivInt(SumUpTo(w, Len(w)), Len(w))

\* right after advance_to the snapshot summarises the retained windows
SnapshotSummarisesWindows ==
    /\ DOMAIN Payload.stream_metrics = DOMAIN met_history
    /\ Payload.stream_count = Cardinality(DOMAIN Payload.stream_metrics)
    /\ \A n \in DOMAIN met_history :
        met_history[n] # << >> =>
            IsSummaryOf(Payload.stream_metrics[n], met_history[n])

(* C5 as stated: metrics monitor: right after advance_to the snapshot has
   one stream_metrics entry per stream with data, computed over the stream's
   retained window: count its length, min and max its smallest and largest
   scalar, mean its sum divided by its length, so that min <= mean <= max;
   stream_count is the number of entries. *)
C5_MeanWithinMinMax ==
    (~IsCmp /\ lastOp.op = "advance_to") =>
        /\ SnapshotSummarisesWindows
        /\ \A n \in DOMAIN met_history :
            met_history[n] # << >> =>
                /\ FLe(Payload.stream_metrics[n].min, Payload.stream_metrics[n].mean)
                /\ FLe(Payload.stream_metrics[n].mean, Payload.stream_metrics[n].max)

(* C5 amended: as above, with mean the float quotient of the left-to-right
   float sum of the window by its length, and without the bound
   min <= mean <= max, which rounding can break. *)
C5_WindowMetrics ==
    (~IsCmp /\ lastOp.op = "advance_to") => SnapshotSummarisesWindows

\* a full window that lost an entry to eviction, summarised by advance_to,
\* whose scalars differ and whose newest is the smallest
C5_Witness ==
    /\ ~IsCmp
    /\ lastOp.op = "advance_to"
    /\ \E n \in DOMAIN met_history :
        /\ Len(arrivals[n]) > Len(met_history[n])
        /\ Len(met_history[n]) >= 2
        /\ FLt(met_history[n][Len(met_history[n])], met_history[n][1])
        /\ Payload.stream_metrics[n].min = met_history[n][Len(met_history[n])]

(* C6: visualize() returns None exactly when no known stream received an
   update since construction or the last reset; otherwise it returns two
   render blocks, "timeseries" then "table".  The same holds of the value a
   visualize call returned. *)
C6_VisualizeAbsentIffNoData ==
    LET shape(r) ==
            /\ r.is_none <=> Active = {}
            /\ ~r.is_none => /\ Len(r.val) = 2
                             /\ r.val[1].render = "timeseries"
                             /\ r.val[2].render = "table"
    IN  /\ shape(VisualizeResult)
        /\ lastOp.op = "visualize" => shape(ret)

\* visualize returned None after advance_to calls, no data having arrived
C6_Witness ==
    /\ lastOp.op = "visualize"
    /\ advanced
    /\ Active = {}
    /\ ret.is_none

\* visualize returned the two blocks before any advance_to
C6_WitnessBlocks ==
    /\ lastOp.op = "visualize"
    /\ ~advanced
    /\ Active # {}
    /\ ~ret.is_none

(* C7: reset() leaves the monitor in its just-constructed state: empty
   histories, empty latest-update map, empty snapshot, High-Water Time 0,
   with the class and max_points it was constructed with; get_outputs() then
   gives the empty map and visualize() gives None. *)
C7_ResetIsFresh ==
    [][lastOp'.op = "reset" =>
        /\ cmp_latest' = << >> /\ cmp_series' = << >> /\ cmp_last_t' = 0
        /\ cmp_outputs' = << >>
        /\ met_history' = << >> /\ met_latest_t' = 0 /\ met_outputs' = << >>
        /\ max_points' = max_points /\ variant' = variant
        /\ (DOMAIN GetOutputsResult)' = {}
        /\ (VisualizeResult.is_none)']_vars

\* a reset of a comparison monitor constructed with max_points = 2
C7_Witness ==
    /\ lastOp.op = "reset"
    /\ IsCmp
    /\ max_points = 2
    /\ cmp_series = << >>

(* C8: get_outputs() gives the empty map until the first advance_to after
   construction/reset; after an advance_to it gives exactly one entry, under
   the declared output name, and right after advance_to(t) that entry is the
   snapshot of this advance, whatever was stored before. *)
C8_OutputsAreLastSnapshot ==
    /\ ~advanced => DOMAIN GetOutputsResult = {}
    /\ advanced => DOMAIN GetOutputsResult = {OutputName}
    /\ lastOp.op = "advance_to" =>
          GetOutputsResult[OutputName] =
              (IF IsCmp THEN CmpSnapshot(lastOp.t) ELSE MetSnapshot(lastOp.t))
    /\ lastOp.op = "get_outputs" => ret = Some(Outputs)

\* get_outputs returned the empty map after data arrived and before an advance
C8_Witness ==
    /\ lastOp.op = "get_outputs"
    /\ Active # {}
    /\ ~advanced
    /\ DOMAIN ret.val = {}

(* C9: right after advance_to(t) the snapshot's time and its payload field t
   are equal, are max(t, High-Water Time), are >= t and >= every timestamp
   ingested since construction or the last reset. *)
C9_EffectiveTime ==
    lastOp.op = "advance_to" =>
        LET snap == Outputs[OutputName]
        IN  /\ snap.time = snap.value.t
            /\ snap.time = (IF lastOp.t >= HighWater THEN lastOp.t ELSE HighWater)
            /\ snap.time >= lastOp.t
            /\ \A ts \in Timestamps : snap.time >= ts

\* an advance_to whose argument is older than an ingested timestamp
C9_Witness ==
    /\ lastOp.op = "advance_to"
    /\ \E ts \in Timestamps : ts > lastOp.t
    /\ Outputs[OutputName].time = 2

\* n has, after the step, the history a single append of obs with eviction gives
AppendedOne(n, obs) ==
    LET full == Append(History(n), Kept(obs))
        keep == Min2(Len(full), max_points)
    IN  /\ n \in HistoryKeys'
        /\ History(n)' = [i \in 1..keep |-> full[Len(full) - keep + i]]
        /\ IsCmp => /\ n \in DOMAIN cmp_latest'
                    /\ cmp_latest'[n].t = obs[1]
                    /\ cmp_latest'[n].scalar = obs[2]

\* n has the same state before and after the step
Untouched(n) ==
    /\ n \in HistoryKeys' <=> n \in HistoryKeys
    /\ History(n)' = History(n)
    /\ n \in DOMAIN cmp_latest' <=> n \in DOMAIN cmp_latest
    /\ n \in DOMAIN cmp_latest => cmp_latest'[n] = cmp_latest[n]

(* C10: a set_inputs call appends exactly one observation to each known
   stream among its keys (and records it as the stream's latest update in
   the comparison monitor), leaves every other known stream as it was, and
   with no known key among its keys leaves the whole monitor state unchanged. *)
C10_SetInputsFrame ==
    [][lastOp'.op = "set_inputs" =>
        /\ \A n \in Known :
            IF n \in lastOp'.keys
            THEN /\ Len(arrivals'[n]) = Len(arrivals[n]) + 1
                 /\ AppendedOne(n, arrivals'[n][Len(arrivals'[n])])
            ELSE /\ arrivals'[n] = arrivals[n]
                 /\ Untouched(n)
        /\ HistoryKeys' \subseteq Known
        /\ lastOp'.keys \cap Known = {} =>
              UNCHANGED <<cfgVars, cmpVars, metVars>>]_vars

\* a call with a known and an unknown key, another stream holding data
C10_Witness ==
    /\ lastOp.op = "set_inputs"
    /\ lastOp.keys = {"state_b", "state_z"}
    /\ arrivals["state_a"] # << >>
    /\ Len(arrivals["state_b"]) = 1

\* a call with only an unknown key on a monitor holding data
C10_WitnessUnknownOnly ==
    /\ lastOp.op = "set_inputs"
    /\ lastOp.keys = {"state_z"}
    /\ Active # {}

(* C11: visualize() is a pure read in both monitors: a call leaves every
   stream's history, the latest-update records, the stored snapshot, the
   High-Water Time and the configuration unchanged, it returns the payload
   computed from that state, and a call right after it returns an equal
   payload. *)
C11_VisualizeIsPureRead ==
    [][lastOp'.op = "visualize" =>
        /\ UNCHANGED <<cfgVars, cmpVars, metVars>>
        /\ ret' = VisualizeResult
        /\ ret' = VisualizeResult'
        /\ lastOp.op = "visualize" => ret' = ret]_vars

\* visualize returned two blocks, the table holding rows of a stored snapshot
C11_Witness ==
    /\ lastOp.op = "visualize"
    /\ advanced
    /\ ~ret.is_none
    /\ Len(ret.val[2].data.rows) >= 1
    /\ History("state_a") # << >>

\* the per-stream map of the stored snapshot and the count stored beside it
Aggregate == IF IsCmp THEN Payload.latest_values ELSE Payload.stream_metrics

AggregateCount == IF IsCmp THEN Payload.n_streams ELSE Payload.stream_count

(* C12: right after advance_to the keys of the snapshot's aggregate
   (latest_values, stream_metrics) are exactly the known streams that received
   an update since construction or the last reset, and n_streams /
   stream_count is their number; with no such stream the maps are empty and
   the count is 0; a stream without data is omitted, so every stream_metrics
   entry has 1 <= count <= max_points. *)
C12_AggregateKeysAreActive ==
    lastOp.op = "advance_to" =>
        /\ DOMAIN Aggregate = Active
        /\ AggregateCount = Cardinality(Active)
        /\ Active = {} => /\ Aggregate = EmptyDict
                          /\ AggregateCount = 0
                          /\ IsCmp => Payload.pairwise_deltas = EmptyDict
        /\ ~IsCmp => \A n \in DOMAIN Aggregate :
                        /\ FLe(<<1, 1>>, Aggregate[n].count)
                        /\ FLe(Aggregate[n].count, <<max_points, 1>>)

\* an advance of the metrics monitor with data on one stream only
C12_Witness ==
    /\ ~IsCmp
    /\ lastOp.op = "advance_to"
    /\ Active = {"state_b"}
    /\ DOMAIN Payload.stream_metrics = {"state_b"}
    /\ Payload.stream_count = 1

\* an advance with no active stream
C12_WitnessNoStream ==
    /\ lastOp.op = "advance_to"
    /\ Active = {}
    /\ AggregateCount = 0

\* what inputs() and outputs() of the constructed monitor return
DeclaredInputs == IF IsCmp THEN CmpInputs ELSE MetInputs

DeclaredOutputs == IF IsCmp THEN CmpOutputs ELSE MetOutputs

(* C13: in every reachable state inputs() is {state_a, state_b, state_c,
   state_d} and outputs() is {comparison_state} (comparison monitor) or
   {metrics} (metrics monitor), also as the value an inputs() or outputs()
   call returned, whatever was ingested, advanced or reset before; every key
   of the stored outputs, and of what get_outputs() returned, is a member of
   outputs(). *)
C13_DeclaredNamesAreFixed ==
    /\ DeclaredInputs = {"state_a", "state_b", "state_c", "state_d"}
    /\ DeclaredOutputs = (IF IsCmp THEN {"comparison_state"} ELSE {"metrics"})
    /\ lastOp.op = "inputs" => ret = Some({"state_a", "state_b", "state_c", "state_d"})
    /\ lastOp.op = "outputs" =>
          ret = Some(IF IsCmp THEN {"comparison_state"} ELSE {"metrics"})
    /\ DOMAIN GetOutputsResult \subseteq DeclaredOutputs
    /\ lastOp.op = "get_outputs" => DOMAIN ret.val \subseteq DeclaredOutputs

\* outputs() called on a comparison monitor that holds data and no snapshot
C13_Witness ==
    /\ IsCmp
    /\ lastOp.op = "outputs"
    /\ Active # {}
    /\ ~advanced
    /\ ret.val = {"comparison_state"}

\* get_outputs() returned a snapshot under the declared name
C13_WitnessStored ==
    /\ lastOp.op = "get_outputs"
    /\ DOMAIN ret.val = DeclaredOutputs

\* the scalar the claim assigns to a value: a number itself, a mapping or a
\* sequence the mean of its numeric entries, anything else 0
Reference(value) ==
    IF IsNumber(value) THEN ToFloat(value.v)
    ELSE IF value.kind \in {"dict", "list", "tuple"} /\ NumericItems(value.items) # << >>
         THEN Mean(NumericItems(value.items))
    ELSE ToFloat(0)

(* C14: the projection (_scalar_projection, _extract_scalar) never raises and
   returns a finite number for every value: a number maps to itself, a mapping
   and a sequence to the mean of their numeric entries, a mapping or sequence
   without numeric entries and any other value to 0; so set_inputs never fails
   on a malformed value. *)
C14_ProjectionIsTotal ==
    /\ lastOp.op \in {"_scalar_projection", "_extract_scalar"} =>
          /\ ~Raised(ret)
          /\ IsFinite(ret.val)
          /\ ret.val = Reference(lastOp.value)
    /\ lastOp.op = "set_inputs" => ~Raised(ret)

\* the blocks of the payload visualize() returns, for a monitor holding data
TimeseriesBlock == VisualizeResult.val[1]

TableRows == VisualizeResult.val[2].data.rows

\* the table row of a stream of the stored snapshot
RowOf(n) ==
    IF IsCmp THEN <<n, Fmt6(Payload.latest_values[n])>>
    ELSE <<n, ToString(PyInt(Payload.stream_metrics[n].count)),
           Fmt6(Payload.stream_metrics[n].mean), Fmt6(Payload.stream_metrics[n].min),
           Fmt6(Payload.stream_metrics[n].max)>>

\* the table has one row per stream of the stored snapshot, in lexical order,
\* and no row while no snapshot is stored
TableIsOfSnapshot ==
    HistoryKeys # {} =>
        LET names == IF advanced THEN Sorted(DOMAIN Aggregate) ELSE << >>
            rows == TableRows
        IN  /\ Len(rows) = Len(names)
            /\ advanced => Len(names) = Cardinality(DOMAIN Aggregate)
            /\ \A i \in 1..Len(names) : rows[i] = RowOf(names[i])

\* the timeseries block has one series per stream with a history, in lexical
\* order, holding that history
TimeseriesIsOfHistory ==
    HistoryKeys # {} =>
        LET names == Sorted(HistoryKeys)
            series == TimeseriesBlock.data.series
        IN  /\ Len(series) = Len(names)
            /\ \A i \in 1..Len(names) :
                /\ series[i].name = names[i]
                /\ series[i].points =
                      (IF IsCmp THEN History(names[i])
                       ELSE [j \in 1..Len(History(names[i])) |->
                                <<j - 1, History(names[i])[j]>>])

\* a set_inputs step that ingests a known stream into a monitor that holds
\* data and a snapshot
IngestsAfterAdvance ==
    /\ lastOp'.op = "set_inputs"
    /\ lastOp'.keys \cap Known # {}
    /\ advanced
    /\ ~VisualizeResult.is_none

(* C15 as stated: the table block of visualize() is derived from the snapshot
   of the most recent advance_to: one row per stream of that snapshot in
   lexical order, no row while data is ingested and no advance_to happened;
   updates ingested after the last advance change the timeseries block and
   leave the table rows unchanged. *)
C15_IngestionChangesTimeseries ==
    [][/\ TableIsOfSnapshot'
       /\ IngestsAfterAdvance =>
            /\ TableRows' = TableRows
            /\ TimeseriesBlock' # TimeseriesBlock]_vars

(* C15 amended: as above, the timeseries block after the update holding the
   updated histories: it differs from the block before exactly when a retained
   history differs, which an update appended to a full window of equal
   observations does not bring about. *)
C15_TableFollowsSnapshot ==
    /\ [](TableIsOfSnapshot /\ TimeseriesIsOfHistory)
    /\ [][IngestsAfterAdvance =>
            \E before \in {VisualizeResult.val}, after \in {VisualizeResult'.val} :
                /\ after[2].data.rows = before[2].data.rows
                /\ (after[1] # before[1]) <=>
                      (\E n \in Known : History(n)' # History(n))]_vars

\* a stream ingested after the advance: two series, one table row
C15_Witness ==
    /\ lastOp.op = "set_inputs"
    /\ advanced
    /\ Cardinality(Active) = 2
    /\ Len(TimeseriesBlock.data.series) = 2
    /\ Len(TableRows) = 1

\* data ingested and no advance_to yet: the table has no row
C15_WitnessNoSnapshot ==
    /\ ~advanced
    /\ Active # {}
    /\ TableRows = << >>

(* C16: each operation writes its own part of the state only: advance_to
   replaces the snapshot and leaves every history, the latest-update records
   and the High-Water Time unchanged, also when t exceeds the High-Water Time;
   set_inputs writes histories, latest-update records and High-Water Time and
   leaves the stored snapshot unchanged, so that get_outputs() still gives the
   snapshot of the previous advance; get_outputs(), visualize(), inputs() and
   outputs() change nothing, and get_outputs() returns the stored snapshot. *)
C16_MutationFrames ==
    [][/\ UNCHANGED cfgVars
       /\ lastOp'.op = "advance_to" =>
            /\ UNCHANGED <<cmp_latest, cmp_series, cmp_last_t, met_history, met_latest_t>>
            /\ DOMAIN Outputs' = {OutputName}
       /\ lastOp'.op = "set_inputs" =>
            /\ UNCHANGED <<cmp_outputs, met_outputs>>
            /\ GetOutputsResult' = GetOutputsResult
       /\ lastOp'.op = "get_outputs" => ret' = Some(Outputs)
       /\ lastOp'.op \in {"get_outputs", "visualize", "inputs", "outputs"} =>
            UNCHANGED <<cmpVars, metVars>>]_vars

\* an advance_to beyond the High-Water Time, which stays where it was
C16_Witness ==
    /\ lastOp.op = "advance_to"
    /\ Active # {}
    /\ lastOp.t > HighWater
    /\ Outputs[OutputName].time = lastOp.t

\* a set_inputs after an advance: the snapshot still lacks the new stream
C16_WitnessStaleSnapshot ==
    /\ lastOp.op = "set_inputs"
    /\ advanced
    /\ DOMAIN Aggregate # Active
    /\ HighWater > Outputs[OutputName].time

(* C17: comparison monitor, max_points >= 1: the latest-update map and the
   history map have the same keys, and the (t, scalar) of a stream's latest
   record is the last element of its history; right after advance_to,
   latest_values holds for each active stream the scalar of its last-arrived
   update, also when that update carries an older timestamp than an earlier
   one. *)
C17_LatestIsLastOfHistory ==
    (IsCmp /\ max_points >= 1) =>
        /\ DOMAIN cmp_latest = DOMAIN cmp_series
        /\ \A n \in DOMAIN cmp_latest :
            /\ cmp_series[n] # << >>
            /\ cmp_series[n][Len(cmp_series[n])] = <<cmp_latest[n].t, cmp_latest[n].scalar>>
        /\ lastOp.op = "advance_to" =>
            /\ DOMAIN Payload.latest_values = Active
            /\ \A n \in Active :
                Payload.latest_values[n] = arrivals[n][Len(arrivals[n])][2]

\* an advance after two updates of a stream, the second older in time and
\* with another scalar: latest_values holds the second
C17_Witness ==
    /\ IsCmp
    /\ lastOp.op = "advance_to"
    /\ \E n \in Active :
        /\ Len(arrivals[n]) = 2
        /\ arrivals[n][2][1] < arrivals[n][1][1]
        /\ arrivals[n][2][2] # arrivals[n][1][2]
        /\ Payload.latest_values[n] = arrivals[n][2][2]

\* the last observation of the arrival log of an active stream
LastArrival(n) == arrivals[n][Len(arrivals[n])]

\* the retained window of an active stream, as the arrival log gives it
WindowOfLog(n) == LastArrivals(n, Min2(Len(arrivals[n]), max_points))

\* the effective time of an advance to t, as the arrival log gives it
EffectiveTimeOfLog(t) ==
    LET hw == SetMax(Timestamps \cup {0}) IN IF t >= hw THEN t ELSE hw

\* the pairs left < right of active streams
ActivePairs == {p \in Active \X Active : LexIndex(p[1]) < LexIndex(p[2])}

\* the count/mean/min/max record of a non-empty window
SummaryOfWindow(w) ==
    LET elems == {w[i] : i \in 1..Len(w)}
    IN  [count |-> <<Len(w), 1>>,
         mean |-> FDivInt(SumUpTo(w, Len(w)), Len(w)),
         min |-> CHOOSE x \in elems : \A y \in elems : FLe(x, y),
         max |-> CHOOSE x \in elems : \A y \in elems : FLe(y, x)]

\* the snapshot of an advance to t as a function of the operations applied
\* since construction or the last reset
SnapshotOfLog(t) ==
    IF IsCmp
    THEN [source |-> "StateComparisonMonitor",
          name |-> "comparison_state",
          value |-> [t |-> EffectiveTimeOfLog(t),
                     latest_values |-> [n \in Active |-> LastArrival(n)[2]],
                     pairwise_deltas |->
                        [k \in {p[1] \o "_minus_" \o p[2] : p \in ActivePairs} |->
                            LET p == CHOOSE q \in ActivePairs :
                                        q[1] \o "_minus_" \o q[2] = k
                            IN  FSub(LastArrival(p[1])[2], LastArrival(p[2])[2])],
                     n_streams |-> Cardinality(Active)],
          time |-> EffectiveTimeOfLog(t),
          metadata |-> [description |-> "State comparison summary", kind |-> "state"]]
    ELSE [source |-> "StateMetricsMonitor",
          name |-> "metrics",
          value |-> [t |-> EffectiveTimeOfLog(t),
                     stream_metrics |-> [n \in Active |-> SummaryOfWindow(WindowOfLog(n))],
                     stream_count |-> Cardinality(Active)],
          time |-> EffectiveTimeOfLog(t),
          metadata |-> [description |-> "State stream metrics summary", kind |-> "state"]]

\* histories and High-Water Time as functions of the operations applied since
\* construction or the last reset
StateIsOfLog ==
    /\ HistoryKeys = Active
    /\ \A n \in Active : History(n) = WindowOfLog(n)
    /\ HighWater = SetMax(Timestamps \cup {0})

\* the stored outputs right after an advance, as the arrival log gives them
OutputsOfLog == [k \in {OutputName} |-> SnapshotOfLog(lastOp.t)]

(* C18: advance_to is deterministic and idempotent: an advance_to(t) right
   after an advance_to(t) leaves the stored snapshot equal; and the state is a
   function of the construction arguments and the operations applied: after
   every step the histories and the High-Water Time are those the arrival log
   determines, and after advance_to(t) the snapshot is the one the arrival log
   and t determine, so that two monitors of the same variant and max_points
   driven by the same operations hold equal histories, High-Water Time and
   snapshots. *)
C18_AdvanceIsDeterministic ==
    /\ [](/\ StateIsOfLog
          /\ lastOp.op = "advance_to" => Outputs = OutputsOfLog)
    /\ [][(lastOp.op = "advance_to" /\ lastOp'.op = "advance_to" /\ lastOp.t = lastOp'.t)
            => Outputs' = Outputs]_vars

\* an advance of the comparison monitor over two active streams, to a time
\* older than the High-Water Time
C18_Witness ==
    /\ IsCmp
    /\ lastOp.op = "advance_to"
    /\ Cardinality(Active) = 2
    /\ HighWater > lastOp.t
    /\ Outputs = OutputsOfLog

(* C19: for every integer max_points the constructor accepts, non-positive
   ones included, every stream's retained history has at most
   max(max_points, 0) entries after every set_inputs. *)
C19_CapacityForAnyMaxPoints ==
    LET capacity == IF max_points > 0 THEN max_points ELSE 0
    IN  /\ \A n \in DOMAIN cmp_series : Len(cmp_series[n]) <= capacity
        /\ \A n \in DOMAIN met_history : Len(met_history[n]) <= capacity

===========================================================================
